---- MODULE Spec2Model ----
(***************************************************************************)
(* A model of the lock-in bot (src/bot.py): the two-step /checkin          *)
(* conversation, /mycheckins, and the PostgreSQL-backed store they use.    *)
(***************************************************************************)
EXTENDS Integers, Sequences, FiniteSets, TLC

(***************************************************************************)
(* Bounds of the model.                                                    *)
(***************************************************************************)
MaxTokens == 2       \* whitespace-separated tokens in one reply
MaxDay == 1          \* last calendar day the clock reaches (days 0..MaxDay)
MaxEarlier == 1      \* check-ins already in the store when the bot starts
MaxStarts == 1       \* /checkin invocations in one behaviour of Spec
MaxConcurrent == 2   \* /checkin invocations in one behaviour of SpecConcurrent

Users == {1, 2}      \* Discord user ids
Channels == {1, 2}   \* channel ids
Inv == {1, 2}        \* check-in coroutines that can be alive together
Days == 0..MaxDay

(***************************************************************************)
(* The catalog (bot.py:15-28).                                             *)
(***************************************************************************)
checklist_categories ==
  [mental |->
     [name |-> "Mental & Spiritual",
      activities |-> <<"Prayed Fajr", "Prayed Dhur", "Prayed Asr",
                       "Prayed Maghrib", "Prayed Isha", "Read Quran">>],
   physical |->
     [name |-> "Physical & Health",
      activities |-> <<"Went on a walk", "Gym workout",
                       "Other form of workout", "Slept 8 hours">>],
   professional |->
     [name |-> "Professional & Learning",
      activities |-> <<"LeetCode", "Side project", "Resume work",
                       "YouTube learning", "Read a book">>]]

\* list(checklist_categories.keys()): dicts keep insertion order.
CategoryKeys == <<"mental", "physical", "professional">>

(***************************************************************************)
(* Small sequence helpers.                                                 *)
(***************************************************************************)
Range(s) == {s[i] : i \in 1..Len(s)}

SeqsUpTo(S, n) == UNION {[1..k -> S] : k \in 0..n}

(***************************************************************************)
(* Message contents.  A content is the list of tokens that str.split()     *)
(* yields.  Three kinds of token are distinguished by what str.isdigit()   *)
(* and int() do with them:                                                 *)
(*   "digits"       "0", "5", "12": isdigit() is True, int() gives val     *)
(*   "word"         "abc", "-1", "1.5": isdigit() is False                 *)
(*   "superscript"  a digit character such as U+00B2: isdigit() is True    *)
(*                  but int() raises ValueError                            *)
(***************************************************************************)
Numbers == {0, 1, 2, 3, 5}

Tokens == {[kind |-> "digits", val |-> n] : n \in Numbers}
            \cup {[kind |-> "word", val |-> 0],
                  [kind |-> "superscript", val |-> 0]}

Contents == SeqsUpTo(Tokens, MaxTokens)

isdigit(x) == x.kind \in {"digits", "superscript"}

\* The list comprehension of bot.py:208 and bot.py:256.
\* raised = TRUE stands for the ValueError that int() throws.
ParseNumbers(content) ==
  LET kept == SelectSeq(content, isdigit)
  IN  IF \E i \in 1..Len(kept) : kept[i].kind = "superscript"
        THEN [raised |-> TRUE, numbers |-> <<>>]
        ELSE [raised |-> FALSE,
              numbers |-> [i \in 1..Len(kept) |-> kept[i].val]]

(***************************************************************************)
(* Step 1 of /checkin: the category reply (bot.py:207-225).                *)
(***************************************************************************)
\* The loop of bot.py:211-217 over category_numbers[k..], with the list
\* selected_categories built so far.  It stops at the first number that
\* is out of range.
RECURSIVE CategoryLoop(_, _, _)
CategoryLoop(category_numbers, k, selected_categories) ==
  IF k > Len(category_numbers)
    THEN [status |-> "ok", selected |-> selected_categories, num |-> 0]
    ELSE LET num == category_numbers[k]
         IN  IF 1 <= num /\ num <= Len(CategoryKeys)
               THEN CategoryLoop(category_numbers, k + 1,
                                 Append(selected_categories,
                                        CategoryKeys[num]))
               ELSE [status |-> "out_of_range", selected |-> <<>>,
                     num |-> num]

\* bot.py:207-225 as a whole: what the category reply leads to.
ParseCategories(content) ==
  LET p == ParseNumbers(content)
  IN  IF p.raised
        THEN [status |-> "invalid_input", selected |-> <<>>, num |-> 0]
        ELSE LET r == CategoryLoop(p.numbers, 1, <<>>)
             IN  IF r.status = "ok" /\ r.selected = <<>>
                   THEN [status |-> "no_valid", selected |-> <<>>, num |-> 0]
                   ELSE r

(***************************************************************************)
(* The display mapping (bot.py:230-242).  activity_mapping is a dict       *)
(* from display number to (category, activity); it is modelled as a        *)
(* function whose domain is the set of keys the loop has assigned.         *)
(***************************************************************************)
EmptyDict == [x \in {} |-> 0]

\* A variant of ActivityMappingInner that numbers the activities of every
\* category from 1.
RECURSIVE ActivityMappingRestart(_, _, _, _)
ActivityMappingRestart(category_key, j, activity_mapping, display_number) ==
  LET activities == checklist_categories[category_key].activities
  IN  IF j > Len(activities)
        THEN [activity_mapping |-> activity_mapping,
              display_number |-> display_number]
        ELSE ActivityMappingRestart(
               category_key, j + 1,
               (j :> <<category_key, activities[j]>>) @@ activity_mapping,
               display_number + 1)

\* Inner loop, bot.py:238-242, over category['activities'][j..].
RECURSIVE ActivityMappingInner(_, _, _, _)
ActivityMappingInner(category_key, j, activity_mapping, display_number) ==
  LET activities == checklist_categories[category_key].activities
  IN  IF j > Len(activities)
        THEN [activity_mapping |-> activity_mapping,
              display_number |-> display_number]
        ELSE ActivityMappingInner(
               category_key, j + 1,
               (display_number :> <<category_key, activities[j]>>)
                  @@ activity_mapping,
               display_number + 1)

\* Outer loop, bot.py:234-242, over selected_categories[k..].
RECURSIVE ActivityMappingOuter(_, _, _, _)
ActivityMappingOuter(selected_categories, k, activity_mapping, number) ==
  IF k > Len(selected_categories)
    THEN activity_mapping
    ELSE LET r == ActivityMappingInner(selected_categories[k], 1,
                                       activity_mapping, number)
         IN  ActivityMappingOuter(selected_categories, k + 1,
                                  r.activity_mapping, r.display_number)

\* bot.py:230-242: display_number starts at 1, the mapping empty.
BuildActivityMapping(selected_categories) ==
  ActivityMappingOuter(selected_categories, 1, EmptyDict, 1)

(***************************************************************************)
(* Step 2 of /checkin: the activity reply (bot.py:255-276).                *)
(***************************************************************************)
\* A variant of ActivityLoop that files every activity under the category
\* of the first entry of the mapping.
RECURSIVE ActivityLoopStale(_, _, _, _)
ActivityLoopStale(activity_numbers, k, activity_mapping, selected_activities) ==
  IF k > Len(activity_numbers)
    THEN [status |-> "ok", selected |-> selected_activities, num |-> 0]
    ELSE LET num == activity_numbers[k]
         IN  IF num \in DOMAIN activity_mapping
               THEN ActivityLoopStale(
                      activity_numbers, k + 1, activity_mapping,
                      Append(selected_activities,
                             [category |-> activity_mapping[1][1],
                              activity |-> activity_mapping[num][2]]))
               ELSE [status |-> "not_valid",
                     selected |-> selected_activities, num |-> num]

\* The loop of bot.py:259-268 over activity_numbers[k..].
RECURSIVE ActivityLoop(_, _, _, _)
ActivityLoop(activity_numbers, k, activity_mapping, selected_activities) ==
  IF k > Len(activity_numbers)
    THEN [status |-> "ok", selected |-> selected_activities, num |-> 0]
    ELSE LET num == activity_numbers[k]
         IN  IF num \in DOMAIN activity_mapping
               THEN ActivityLoop(
                      activity_numbers, k + 1, activity_mapping,
                      Append(selected_activities,
                             [category |-> activity_mapping[num][1],
                              activity |-> activity_mapping[num][2]]))
               ELSE [status |-> "not_valid",
                     selected |-> selected_activities, num |-> num]

\* bot.py:255-276 as a whole: what the activity reply leads to.
ParseActivities(content, activity_mapping) ==
  LET p == ParseNumbers(content)
  IN  IF p.raised
        THEN [status |-> "invalid_input", selected |-> <<>>, num |-> 0]
        ELSE LET r == ActivityLoop(p.numbers, 1, activity_mapping, <<>>)
             IN  IF r.status = "ok" /\ r.selected = <<>>
                   THEN [status |-> "no_valid", selected |-> <<>>, num |-> 0]
                   ELSE r

(***************************************************************************)
(* Dates.  The clock and the DATE column count days; day 0 is 2024-12-31   *)
(* and day n >= 1 is January n of 2025.  strftime('%Y-%m-%d') gives a      *)
(* zero-padded string, which Python compares field by field: it is         *)
(* modelled as the tuple <<year, month, day>>.                             *)
(***************************************************************************)
strftime(day) == IF day = 0 THEN <<2024, 12, 31>> ELSE <<2025, 1, day>>

\* A variant of ParseDate that lands on the day after.
ParseDateShifted(date) == (CHOOSE day \in 0..31 : strftime(day) = date) + 1

\* PostgreSQL casting the 'YYYY-MM-DD' string back to a DATE (bot.py:154).
ParseDate(date) == CHOOSE day \in 0..31 : strftime(day) = date

\* Python's < on two date strings.
StrLess(a, b) ==
  \/ a[1] < b[1]
  \/ a[1] = b[1] /\ a[2] < b[2]
  \/ a[1] = b[1] /\ a[2] = b[2] /\ a[3] < b[3]

(***************************************************************************)
(* Python dicts keep insertion order: a dict is a sequence of              *)
(* [key, value] entries with distinct keys.  A user key is a str (as       *)
(* load_user_data builds it, bot.py:101) or an int (interaction.user.id):  *)
(* str(1) and 1 are different keys.                                        *)
(***************************************************************************)
DictHas(d, k) == \E i \in 1..Len(d) : d[i].key = k

DictGet(d, k) == d[CHOOSE i \in 1..Len(d) : d[i].key = k].value

DictSet(d, k, v) ==
  IF DictHas(d, k)
    THEN [i \in 1..Len(d) |->
            IF d[i].key = k THEN [key |-> k, value |-> v] ELSE d[i]]
    ELSE Append(d, [key |-> k, value |-> v])

DictKeys(d) == [i \in 1..Len(d) |-> d[i].key]

str(user_id) == [type |-> "str", v |-> user_id]

IntKey(user_id) == [type |-> "int", v |-> user_id]

\* int(user_id) of bot.py:144 and bot.py:154, on either kind of key.
int(key) == key.v

\* The per-date value of bot.py:110-114 and bot.py:290-294.
EmptyCategories == [mental |-> <<>>, physical |-> <<>>, professional |-> <<>>]

(***************************************************************************)
(* The store: table users (a set of ids) and table checkins (its rows in   *)
(* insertion order, the order of created_at).                              *)
(***************************************************************************)
SameTuple(r, q) ==
  /\ r.user_id = q.user_id
  /\ r.checkin_date = q.checkin_date
  /\ r.category = q.category
  /\ r.activity = q.activity

\* ORDER BY checkin_date DESC, created_at ASC (bot.py:89-93).
RECURSIVE OrderByDateDesc(_, _)
OrderByDateDesc(rows, day) ==
  IF day < 0
    THEN <<>>
    ELSE SelectSeq(rows, LAMBDA r : r.checkin_date = day)
           \o OrderByDateDesc(rows, day - 1)

\* The loop of bot.py:100-117 over rows[k..].
RECURSIVE OrganizeRows(_, _, _)
OrganizeRows(rows, k, user_data) ==
  IF k > Len(rows)
    THEN user_data
    ELSE LET row == rows[k]
             user_id == str(row.user_id)
             date == strftime(row.checkin_date)
             dates == IF DictHas(user_data, user_id)
                        THEN DictGet(user_data, user_id) ELSE <<>>
             cats == IF DictHas(dates, date)
                       THEN DictGet(dates, date) ELSE EmptyCategories
             list == cats[row.category]
             cats2 == IF row.activity \in Range(list)
                        THEN cats
                        ELSE [cats EXCEPT ![row.category] =
                                Append(list, row.activity)]
         IN  OrganizeRows(rows, k + 1,
                          DictSet(user_data, user_id,
                                  DictSet(dates, date, cats2)))

\* A variant of load_user_data that returns the rows organised so far
\* when the query fails.
LoadUserDataPartial(table, conn) ==
  IF conn = "no_connection"
    THEN <<>>
    ELSE OrganizeRows(table, 1, <<>>)

\* load_user_data (bot.py:79-126).  conn is what get_db_connection and the
\* query come to: "ok", "no_connection" (bot.py:82-84) or "error" (an
\* exception inside the try block, bot.py:122-124).
load_user_data(table, conn) ==
  IF conn = "ok"
    THEN LET days == {table[i].checkin_date : i \in 1..Len(table)}
             last == IF days = {} THEN 0
                     ELSE CHOOSE d \in days : \A e \in days : e <= d
         IN  OrganizeRows(OrderByDateDesc(table, last), 1, <<>>)
    ELSE <<>>

(***************************************************************************)
(* save_user_data (bot.py:129-165).                                        *)
(***************************************************************************)
\* The INSERTs of bot.py:147-154 for one date of one user, in the order
\* the loops run: categories in dict order, activities in list order.
RECURSIVE CategoryStatements(_, _, _, _)
CategoryStatements(user_id, date, categories, c) ==
  IF c > Len(CategoryKeys)
    THEN <<>>
    ELSE LET category == CategoryKeys[c]
             activities == categories[category]
         IN  [j \in 1..Len(activities) |->
                [table |-> "checkins",
                 row |-> [user_id |-> int(user_id),
                          checkin_date |-> ParseDate(date),
                          category |-> category,
                          activity |-> activities[j]]]]
               \o CategoryStatements(user_id, date, categories, c + 1)

\* The loop of bot.py:146 over dates[k..] of one user.
RECURSIVE DateStatements(_, _, _)
DateStatements(user_id, dates, k) ==
  IF k > Len(dates)
    THEN <<>>
    ELSE CategoryStatements(user_id, dates[k].key, dates[k].value, 1)
           \o DateStatements(user_id, dates, k + 1)

\* The loop of bot.py:138-154 over user_data[k..]: every statement that
\* save_user_data executes, in order.
RECURSIVE SaveStatements(_, _)
SaveStatements(user_data, k) ==
  IF k > Len(user_data)
    THEN <<>>
    ELSE <<[table |-> "users", user_id |-> int(user_data[k].key)]>>
           \o DateStatements(user_data[k].key, user_data[k].value, 1)
           \o SaveStatements(user_data, k + 1)

\* A variant of Execute whose INSERT into checkins ignores the conflict.
ExecuteAlways(db, stmt) ==
  IF stmt.table = "users"
    THEN [db EXCEPT !.users = db.users \cup {stmt.user_id}]
    ELSE [db EXCEPT !.checkins = Append(db.checkins, stmt.row)]

\* One INSERT ... ON CONFLICT DO NOTHING (bot.py:140-144, 150-154) on the
\* transaction's view db = [users, checkins].
Execute(db, stmt) ==
  IF stmt.table = "users"
    THEN [db EXCEPT !.users = db.users \cup {stmt.user_id}]
    ELSE IF \E i \in 1..Len(db.checkins) :
                SameTuple(db.checkins[i], stmt.row)
           THEN db
           ELSE [db EXCEPT !.checkins = Append(db.checkins, stmt.row)]

\* The first n statements of stmts, executed in order.
RECURSIVE ExecuteAll(_, _, _)
ExecuteAll(db, stmts, n) ==
  IF n = 0
    THEN db
    ELSE Execute(ExecuteAll(db, stmts, n - 1), stmts[n])

\* A variant of Rollback that commits what the transaction had done.
RollbackKeeps(db, in_transaction) == in_transaction

\* What is committed when an exception interrupts the transaction after
\* it has executed some statements: conn.rollback() (bot.py:162) discards
\* them, so the store is as it was.
Rollback(db, in_transaction) == db

\* A variant of save_user_data that rewrites table checkins from the
\* mapping it is given, as a save to a file would.
SaveUserDataReplacing(db, user_data, conn, executed) ==
  LET stmts == SaveStatements(user_data, 1)
      emptied == [db EXCEPT !.checkins = <<>>]
  IN  CASE conn = "ok" ->
             [returned |-> "True",
              db |-> ExecuteAll(emptied, stmts, Len(stmts))]
        [] conn = "no_connection" ->
             [returned |-> "False", db |-> db]
        [] conn = "error" ->
             [returned |-> "False",
              db |-> Rollback(db, ExecuteAll(emptied, stmts, executed))]

\* save_user_data as a whole.  conn is what the connection comes to:
\*   "ok"              every statement and the commit succeed; returns True
\*   "no_connection"   get_db_connection gave None (bot.py:132-134); False
\*   "error"           an exception after `executed` statements; rollback,
\*                     returns False (bot.py:160-163)
\* The result is the value returned and the committed store.
save_user_data(db, user_data, conn, executed) ==
  LET stmts == SaveStatements(user_data, 1)
  IN  CASE conn = "ok" ->
             [returned |-> "True", db |-> ExecuteAll(db, stmts, Len(stmts))]
        [] conn = "no_connection" ->
             [returned |-> "False", db |-> db]
        [] conn = "error" ->
             [returned |-> "False",
              db |-> Rollback(db, ExecuteAll(db, stmts, executed))]

(***************************************************************************)
(* The Persisting step of /checkin (bot.py:278-305).                       *)
(***************************************************************************)
\* The loop of bot.py:297-302 over selected_activities[k..], on the
\* categories dict of the current date.
RECURSIVE AddActivities(_, _, _)
AddActivities(categories, selected_activities, k) ==
  IF k > Len(selected_activities)
    THEN categories
    ELSE LET item == selected_activities[k]
             category_key == item.category
         IN  IF /\ category_key \in DOMAIN categories
                /\ item.activity \notin Range(categories[category_key])
               THEN AddActivities(
                      [categories EXCEPT ![category_key] =
                         Append(categories[category_key], item.activity)],
                      selected_activities, k + 1)
               ELSE AddActivities(categories, selected_activities, k + 1)

\* bot.py:286-302: the loaded data with the selection added under the
\* invoking user's id (an int) and the current date.
UpdatedUserData(loaded, user_id, current_date, selected_activities) ==
  LET key == IntKey(user_id)
      d1 == IF DictHas(loaded, key) THEN loaded
            ELSE DictSet(loaded, key, <<>>)
      dates == DictGet(d1, key)
      dates1 == IF DictHas(dates, current_date) THEN dates
                ELSE DictSet(dates, current_date, EmptyCategories)
      categories == AddActivities(DictGet(dates1, current_date),
                                  selected_activities, 1)
  IN  DictSet(d1, key, DictSet(dates1, current_date, categories))

\* The summary lines of bot.py:308-310.
Summary(selected_activities) ==
  [i \in 1..Len(selected_activities) |->
     <<selected_activities[i].activity,
       checklist_categories[selected_activities[i].category].name>>]

(***************************************************************************)
(* The state.                                                              *)
(***************************************************************************)
VARIABLES
  inv,        \* inv[i]: the i-th /checkin coroutine: where it is, its locals
  listeners,  \* bot._listeners['message']: coroutines in wait_for, in order
  ready,      \* coroutines whose wait_for has a result, in wake-up order
  users,      \* table users: the set of user_id
  checkins,   \* table checkins: its rows, in insertion order
  today,      \* the day datetime.now() falls on
  outbox,     \* the messages the last step sent
  dblog,      \* what the store calls of the last step came to
  started     \* /checkin invocations started so far

vars == <<inv, listeners, ready, users, checkins, today, outbox, dblog,
          started>>

None == [author |-> 0, channel |-> 0, content |-> <<>>]

\* A coroutine that is not running: pc is "Idle" before the first use of
\* the slot and "Aborted" or "Completed" after a return.
Returned(pc) ==
  [pc |-> pc, user |-> 0, channel |-> 0, selected_categories |-> <<>>,
   activity_mapping |-> EmptyDict, reply |-> None]

\* dblog when the step called neither load_user_data nor save_user_data.
\* load, save: what the connection came to; loaded: the number of users
\* in the mapping load_user_data returned; executed: the statements
\* save_user_data ran before it stopped; returned: its return value.
NoDb == [load |-> "none", loaded |-> 0, save |-> "none", executed |-> 0,
         returned |-> "none"]

\* A message sent by coroutine i (0: by a command that does not wait) in
\* answer to user.
Msg(i, user, kind, num, body) ==
  [inv |-> i, user |-> user, kind |-> kind, num |-> num, body |-> body]

\* The store a completed, saved check-in leaves: the Persisting step
\* (bot.py:278-305) of user u on day `day` with the given replies.
AfterCheckin(db, e) ==
  LET mapping == BuildActivityMapping(ParseCategories(e.categories).selected)
      selected == ParseActivities(e.activities, mapping).selected
      data == UpdatedUserData(load_user_data(db.checkins, "ok"), e.user,
                              strftime(e.day), selected)
  IN  save_user_data(db, data, "ok", 0).db

Digits(n) == [kind |-> "digits", val |-> n]

\* Check-ins of earlier runs of the bot: (categories reply, activities
\* reply) is ("1", "1") or ("2 1", "2 5"), on day 0.
Earlier ==
  {[user |-> u, day |-> 0, categories |-> r[1], activities |-> r[2]] :
     u \in Users,
     r \in {<< <<Digits(1)>>, <<Digits(1)>> >>,
            << <<Digits(2), Digits(1)>>, <<Digits(2), Digits(5)>> >>}}

RECURSIVE AfterAll(_, _)
AfterAll(db, es) ==
  IF es = <<>> THEN db
  ELSE AfterCheckin(AfterAll(db, SubSeq(es, 1, Len(es) - 1)), es[Len(es)])

\* The stores the bot can find at start-up.
Stores ==
  {AfterAll([users |-> {}, checkins |-> <<>>], es) :
     es \in SeqsUpTo(Earlier, MaxEarlier)}

InitWith(stores) ==
  /\ inv = [i \in Inv |-> Returned("Idle")]
  /\ listeners = <<>>
  /\ ready = <<>>
  /\ \E db \in stores : users = db.users /\ checkins = db.checkins
  /\ today = 0
  /\ outbox = <<>>
  /\ dblog = NoDb
  /\ started = 0

Init == InitWith(Stores)

(***************************************************************************)
(* /checkin, up to its first wait (bot.py:188-204).                        *)
(***************************************************************************)
NotRunning(i) == inv[i].pc \in {"Idle", "Aborted", "Completed"}

\* The new coroutine takes the first slot that is not running.
StartCheckin(i, u, c) ==
  /\ ready = <<>>
  /\ NotRunning(i)
  /\ \A j \in Inv : j < i => ~NotRunning(j)
  /\ inv' = [inv EXCEPT ![i] =
               [pc |-> "AwaitingCategorySelection", user |-> u,
                channel |-> c, selected_categories |-> <<>>,
                activity_mapping |-> EmptyDict, reply |-> None]]
  /\ listeners' = Append(listeners, i)
  /\ outbox' = <<Msg(i, u, "category_prompt", Len(CategoryKeys), <<>>)>>
  /\ dblog' = NoDb
  /\ started' = started + 1
  /\ UNCHANGED <<ready, users, checkins, today>>

(***************************************************************************)
(* A message arrives: bot.wait_for's futures whose check accepts it get    *)
(* it as their result and leave the listener list; their coroutines are    *)
(* woken in that order.                                                    *)
(***************************************************************************)
\* A variant of check_category that compares the channel only.
CheckCategoryAnyAuthor(i, m) == m.channel = inv[i].channel

\* bot.py:200-201.
check_category(i, m) ==
  m.author = inv[i].user /\ m.channel = inv[i].channel

\* bot.py:249-250.
check_activities(i, m) ==
  m.author = inv[i].user /\ m.channel = inv[i].channel

Accepts(i, m) ==
  IF inv[i].pc = "AwaitingCategorySelection"
    THEN check_category(i, m)
    ELSE check_activities(i, m)

Message(u, c, content) ==
  LET m == [author |-> u, channel |-> c, content |-> content]
      woken == SelectSeq(listeners, LAMBDA i : Accepts(i, m))
  IN  /\ ready = <<>>
      /\ woken # <<>>
      /\ inv' = [i \in Inv |->
                   IF i \in Range(woken)
                     THEN [inv[i] EXCEPT !.reply = m] ELSE inv[i]]
      /\ listeners' = SelectSeq(listeners, LAMBDA i : ~Accepts(i, m))
      /\ ready' = woken
      /\ outbox' = <<>>
      /\ dblog' = NoDb
      /\ UNCHANGED <<users, checkins, today, started>>

\* A variant of Timeout whose except branch sends nothing.
TimeoutSilent(i) ==
  /\ ready = <<>>
  /\ i \in Range(listeners)
  /\ inv' = [inv EXCEPT ![i] = Returned("Aborted")]
  /\ listeners' = SelectSeq(listeners, LAMBDA j : j # i)
  /\ outbox' = <<>>
  /\ dblog' = NoDb
  /\ UNCHANGED <<ready, users, checkins, today, started>>

\* A variant of Timeout for a wait_for called without timeout: it never
\* fires.
TimeoutNever(i) ==
  /\ FALSE
  /\ UNCHANGED vars

(***************************************************************************)
(* wait_for times out (bot.py:314-315), at either step.                    *)
(***************************************************************************)
Timeout(i) ==
  /\ ready = <<>>
  /\ i \in Range(listeners)
  /\ inv' = [inv EXCEPT ![i] = Returned("Aborted")]
  /\ listeners' = SelectSeq(listeners, LAMBDA j : j # i)
  /\ outbox' = <<Msg(i, inv[i].user, "timeout", 0, <<>>)>>
  /\ dblog' = NoDb
  /\ UNCHANGED <<ready, users, checkins, today, started>>

(***************************************************************************)
(* The coroutine resumes with the category reply (bot.py:206-252).         *)
(***************************************************************************)
CategoryReply(i) ==
  /\ ready # <<>> /\ Head(ready) = i
  /\ inv[i].pc = "AwaitingCategorySelection"
  /\ LET r == ParseCategories(inv[i].reply.content)
     IN  IF r.status = "ok"
           THEN /\ inv' = [inv EXCEPT ![i] =
                            [pc |-> "AwaitingActivitySelection",
                             user |-> inv[i].user,
                             channel |-> inv[i].channel,
                             selected_categories |-> r.selected,
                             activity_mapping |->
                               BuildActivityMapping(r.selected),
                             reply |-> None]]
                /\ listeners' = Append(listeners, i)
                /\ outbox' = <<Msg(i, inv[i].user, "activity_prompt", 0,
                                   r.selected)>>
           ELSE /\ inv' = [inv EXCEPT ![i] = Returned("Aborted")]
                /\ listeners' = listeners
                /\ outbox' = <<Msg(i, inv[i].user, "category_" \o r.status,
                                   r.num, <<>>)>>
  /\ ready' = Tail(ready)
  /\ dblog' = NoDb
  /\ UNCHANGED <<users, checkins, today, started>>

(***************************************************************************)
(* The coroutine resumes with the activity reply and, when the reply is    *)
(* valid, persists and confirms (bot.py:254-312).  Nothing is awaited      *)
(* between the parse and the save, so the step is atomic.                  *)
(***************************************************************************)
LoadOutcomes == {"ok", "no_connection", "error"}

SaveOutcomes == {"ok", "no_connection", "error"}

\* A variant of CheckinStore that saves whatever was selected before the
\* reply turned out to be invalid.
CheckinStoreEager(db, r, user_id, current_date, lconn, sconn, executed) ==
  IF r.selected # <<>>
    THEN save_user_data(
           db,
           UpdatedUserData(load_user_data(db.checkins, lconn), user_id,
                           current_date, r.selected),
           sconn, executed)
    ELSE [returned |-> "none", db |-> db]

\* The store calls of bot.py:254-305 for the parse result r: nothing is
\* loaded or saved unless the whole reply was valid.  The result is what
\* save_user_data returned ("none": not called) and the committed store.
CheckinStore(db, r, user_id, current_date, lconn, sconn, executed) ==
  IF r.status = "ok"
    THEN save_user_data(
           db,
           UpdatedUserData(load_user_data(db.checkins, lconn), user_id,
                           current_date, r.selected),
           sconn, executed)
    ELSE [returned |-> "none", db |-> db]

ActivityReply(i) ==
  /\ ready # <<>> /\ Head(ready) = i
  /\ inv[i].pc = "AwaitingActivitySelection"
  /\ ready' = Tail(ready)
  /\ UNCHANGED <<listeners, today, started>>
  /\ LET r == ParseActivities(inv[i].reply.content, inv[i].activity_mapping)
         db == [users |-> users, checkins |-> checkins]
         current_date == strftime(today)
     IN  IF r.status # "ok"
           THEN LET s == CheckinStore(db, r, inv[i].user, current_date,
                                      "ok", "ok", 0)
                IN  /\ inv' = [inv EXCEPT ![i] = Returned("Aborted")]
                    /\ outbox' = <<Msg(i, inv[i].user,
                                       "activity_" \o r.status, r.num,
                                       <<>>)>>
                    /\ dblog' = NoDb
                    /\ users' = s.db.users
                    /\ checkins' = s.db.checkins
           ELSE \E lconn \in LoadOutcomes, sconn \in SaveOutcomes :
                  LET loaded == load_user_data(checkins, lconn)
                      n == Len(SaveStatements(
                                 UpdatedUserData(loaded, inv[i].user,
                                                 current_date, r.selected),
                                 1))
                  IN  \E executed \in 0..n :
                        LET s == CheckinStore(db, r, inv[i].user,
                                              current_date, lconn, sconn,
                                              executed)
                        IN  /\ sconn = "error" \/ executed = 0
                            /\ users' = s.db.users
                            /\ checkins' = s.db.checkins
                            /\ dblog' = [load |-> lconn,
                                         loaded |-> Len(loaded),
                                         save |-> sconn,
                                         executed |-> executed,
                                         returned |-> s.returned]
                            /\ inv' = [inv EXCEPT ![i] =
                                        Returned("Completed")]
                            /\ outbox' =
                                 <<Msg(i, inv[i].user, "confirmation",
                                       ParseDate(current_date),
                                       Summary(r.selected))>>

(***************************************************************************)
(* /mycheckins (bot.py:317-357).                                           *)
(***************************************************************************)
HistoryLimit == 10

\* sorted(checkins.keys(), reverse=True) of bot.py:333 on date strings.
RECURSIVE SortedReverse(_)
SortedReverse(keys) ==
  IF keys = {}
    THEN <<>>
    ELSE LET top == CHOOSE a \in keys : \A b \in keys \ {a} : StrLess(b, a)
         IN  <<top>> \o SortedReverse(keys \ {top})

\* sorted_dates[:10] of bot.py:336.
FirstN(s, n) == SubSeq(s, 1, IF Len(s) < n THEN Len(s) ELSE n)

\* bot.py:340-346 for one date: the categories that have activities, in
\* the order mental, physical, professional.
HistoryEntry(date, categories) ==
  [date |-> date,
   categories |->
     SelectSeq([c \in 1..Len(CategoryKeys) |->
                  <<checklist_categories[CategoryKeys[c]].name,
                    categories[CategoryKeys[c]]>>],
               LAMBDA e : e[2] # <<>>)]

\* The answer of /mycheckins to user_id, given what load_user_data gave.
\* The user is looked up under interaction.user.id, an int (bot.py:326).
MyCheckinsAnswer(current_user_data, user_id) ==
  LET key == IntKey(user_id)
  IN  IF DictHas(current_user_data, key)
        THEN LET dates == DictGet(current_user_data, key)
                 sorted_dates == SortedReverse(Range(DictKeys(dates)))
                 shown == FirstN(sorted_dates, HistoryLimit)
             IN  IF dates # <<>>
                   THEN Msg(0, user_id, "history", 0,
                            [k \in 1..Len(shown) |->
                               HistoryEntry(shown[k],
                                            DictGet(dates, shown[k]))])
                   ELSE Msg(0, user_id, "not_checked_in", 0, <<>>)
        ELSE Msg(0, user_id, "not_checked_in", 0, <<>>)

MyCheckins(u) ==
  /\ ready = <<>>
  /\ \E lconn \in LoadOutcomes :
       LET current_user_data == load_user_data(checkins, lconn)
       IN  /\ outbox' = <<MyCheckinsAnswer(current_user_data, u)>>
           /\ dblog' = [NoDb EXCEPT !.load = lconn,
                                    !.loaded = Len(current_user_data)]
  /\ UNCHANGED <<inv, listeners, ready, users, checkins, today, started>>

(***************************************************************************)
(* /help (bot.py:359-365): one message naming the commands it documents.   *)
(***************************************************************************)
HelpFields == <<"/checkin", "/mycheckins", "/help">>

Help(u) ==
  /\ ready = <<>>
  /\ outbox' = <<Msg(0, u, "help", 0, HelpFields)>>
  /\ dblog' = NoDb
  /\ UNCHANGED <<inv, listeners, ready, users, checkins, today, started>>

(***************************************************************************)
(* /debug (bot.py:367-404): refused unless the bot owner asks; reads both  *)
(* tables and writes nothing.                                              *)
(***************************************************************************)
\* The user who stands for the owner id of bot.py:370.
OwnerId == 1

DebugLimit == 10

Reverse(s) == [k \in 1..Len(s) |-> s[Len(s) + 1 - k]]

\* The answer of bot.py:370-402; conn is what get_db_connection and the
\* two SELECTs came to.
DebugAnswer(user_id, conn) ==
  IF user_id # OwnerId
    THEN Msg(0, user_id, "debug_refused", 0, <<>>)
    ELSE CASE conn = "no_connection" ->
                Msg(0, user_id, "debug_no_connection", 0, <<>>)
           [] conn = "error" ->
                Msg(0, user_id, "debug_error", 0, <<>>)
           [] conn = "ok" ->
                Msg(0, user_id, "debug_info", Cardinality(users),
                    FirstN(Reverse(checkins), DebugLimit))

Debug(u) ==
  /\ ready = <<>>
  /\ \E conn \in LoadOutcomes : outbox' = <<DebugAnswer(u, conn)>>
  /\ dblog' = NoDb
  /\ UNCHANGED <<inv, listeners, ready, users, checkins, today, started>>

(***************************************************************************)
(* Midnight passes.                                                        *)
(***************************************************************************)
Tick ==
  /\ today < MaxDay
  /\ today' = today + 1
  /\ outbox' = <<>>
  /\ dblog' = NoDb
  /\ UNCHANGED <<inv, listeners, ready, users, checkins, started>>

(***************************************************************************)
(* Spec: one conversation, every reply of up to MaxTokens tokens, every    *)
(* outcome of the store calls, from every start-up store.                  *)
(***************************************************************************)
Next ==
  \/ \E i \in Inv, u \in Users, c \in Channels :
       started < MaxStarts /\ StartCheckin(i, u, c)
  \/ \E u \in Users, c \in Channels, content \in Contents :
       Message(u, c, content)
  \/ \E i \in Inv : Timeout(i)
  \/ \E i \in Inv : CategoryReply(i)
  \/ \E i \in Inv : ActivityReply(i)
  \/ \E u \in Users : MyCheckins(u)
  \/ \E u \in Users : Help(u)
  \/ \E u \in Users : Debug(u)
  \/ Tick

Spec == Init /\ [][Next]_vars

(***************************************************************************)
(* SpecConcurrent: up to MaxConcurrent conversations side by side, with    *)
(* replies of one token.                                                   *)
(***************************************************************************)
ShortContents == SeqsUpTo(Tokens, 1)

NextConcurrent ==
  \/ \E i \in Inv, u \in Users, c \in Channels :
       started < MaxConcurrent /\ StartCheckin(i, u, c)
  \/ \E u \in Users, c \in Channels, content \in ShortContents :
       Message(u, c, content)
  \/ \E i \in Inv : Timeout(i)
  \/ \E i \in Inv : CategoryReply(i)
  \/ \E i \in Inv : ActivityReply(i)
  \/ \E u \in Users : MyCheckins(u)
  \/ \E u \in Users : Help(u)
  \/ \E u \in Users : Debug(u)
  \/ Tick

\* The bot's first start: both tables are empty.
InitConcurrent == InitWith({[users |-> {}, checkins |-> <<>>]})

SpecConcurrent == InitConcurrent /\ [][NextConcurrent]_vars

(***************************************************************************)
(* SpecFair: one conversation with replies of one token, from the empty    *)
(* store, with the scheduling the event loop guarantees: a                 *)
(* coroutine whose wait_for has a result is resumed, and a wait_for that   *)
(* gets no result raises TimeoutError when its 60 seconds are over         *)
(* (bot.py:204, 252).  Nothing obliges a user to write.                    *)
(***************************************************************************)
\* The event loop runs coroutine i, the head of its ready queue.  The
\* steps that do this are CategoryReply(i) and ActivityReply(i), which
\* have no other guard than the coroutine's position.
Resume(i) ==
  /\ ready # <<>> /\ Head(ready) = i
  /\ ready' = Tail(ready)

\* Weak fairness of Resume(i), with its enabling condition written out.
Resumed(i) ==
  \/ []<>(~(ready # <<>> /\ Head(ready) = i))
  \/ []<><<Resume(i)>>_vars

Fairness ==
  \A i \in Inv : WF_vars(Timeout(i)) /\ Resumed(i)

NextFair ==
  \/ \E i \in Inv, u \in Users, c \in Channels :
       started < MaxStarts /\ StartCheckin(i, u, c)
  \/ \E u \in Users, c \in Channels, content \in ShortContents :
       Message(u, c, content)
  \/ \E i \in Inv : Timeout(i)
  \/ \E i \in Inv : CategoryReply(i)
  \/ \E i \in Inv : ActivityReply(i)
  \/ \E u \in Users : MyCheckins(u)
  \/ \E u \in Users : Help(u)
  \/ \E u \in Users : Debug(u)
  \/ Tick

SpecFair == InitConcurrent /\ [][NextFair]_vars /\ Fairness

(***************************************************************************)
(* Properties.                                                             *)
(***************************************************************************)
Waiting(i) ==
  inv[i].pc \in {"AwaitingCategorySelection", "AwaitingActivitySelection"}

Row(u, day, category, activity) ==
  [user_id |-> u, checkin_date |-> day, category |-> category,
   activity |-> activity]

\* C1: a step that takes a check-in from either waiting state to Aborted
\* (an invalid or empty selection, or a timeout, at either step) leaves
\* both tables exactly as they were.
C1_AbortWritesNothing ==
  [][\A i \in Inv :
       (Waiting(i) /\ inv'[i].pc = "Aborted")
         => (checkins' = checkins /\ users' = users)]_vars

\* An activity reply with an invalid number has just aborted a check-in
\* while the store holds records.
C1_Witness ==
  \E i \in Inv, u \in Users :
    /\ inv[i].pc = "Aborted"
    /\ checkins # <<>>
    /\ outbox = <<Msg(i, u, "activity_not_valid", 5, <<>>)>>

\* C2: the table never holds two rows with the same (user, date,
\* category, activity).
C2_AtMostOneRecord ==
  \A a, b \in 1..Len(checkins) :
    a # b => ~SameTuple(checkins[a], checkins[b])

\* A check-in that selected only "Prayed Fajr" was saved on day 0 for a
\* user whose first stored record is already that activity on that day:
\* the tuple was upserted a second time.
C2_Witness ==
  \E i \in Inv, u \in Users :
    /\ outbox = <<Msg(i, u, "confirmation", 0,
                      << <<"Prayed Fajr", "Mental & Spiritual">> >>)>>
    /\ dblog.returned = "True"
    /\ Len(checkins) = 2
    /\ checkins[1] = Row(u, 0, "mental", "Prayed Fajr")

\* The numbers written in a reply: its tokens of decimal digits.
GivenNumbers(content) ==
  {content[k].val : k \in {j \in 1..Len(content) :
                              content[j].kind = "digits"}}

\* Coroutine i takes its reply off the wake-up queue in this step.
Resumes(i) == ready # <<>> /\ Head(ready) = i /\ ready' = Tail(ready)

\* C3: when a number of the category reply is outside 1..K, the step
\* that handles the reply aborts the check-in and sends the out-of-range
\* error naming a number of the reply that is out of range.
C3_OutOfRangeAborts ==
  [][\A i \in Inv :
       LET bad == GivenNumbers(inv[i].reply.content)
                    \ (1..Len(CategoryKeys))
       IN  (inv[i].pc = "AwaitingCategorySelection" /\ Resumes(i)
              /\ bad # {})
             => /\ inv'[i].pc = "Aborted"
                /\ \E n \in bad :
                     outbox' = <<Msg(i, inv[i].user,
                                     "category_out_of_range", n, <<>>)>>]_vars

\* The activities of the categories in sel, category after category.
RECURSIVE ListedActivities(_)
ListedActivities(sel) ==
  IF sel = <<>>
    THEN <<>>
    ELSE LET activities == checklist_categories[Head(sel)].activities
         IN  [j \in 1..Len(activities) |-> <<Head(sel), activities[j]>>]
               \o ListedActivities(Tail(sel))

\* The place of a (category, activity) pair in the catalog.
CatalogPlace(pair) ==
  LET c == CHOOSE k \in 1..Len(CategoryKeys) : CategoryKeys[k] = pair[1]
      a == CHOOSE j \in 1..Len(checklist_categories[pair[1]].activities) :
             checklist_categories[pair[1]].activities[j] = pair[2]
  IN  <<c, a>>

CatalogBefore(p, q) ==
  LET x == CatalogPlace(p)
      y == CatalogPlace(q)
  IN  x[1] < y[1] \/ (x[1] = y[1] /\ x[2] < y[2])

\* C4 as stated: while a check-in waits for the activity reply, the
\* display mapping has keys exactly 1..N, N the number of activities of
\* the selected categories, and larger numbers go to pairs later in the
\* catalog.
C4_CatalogOrder ==
  \A i \in Inv :
    inv[i].pc = "AwaitingActivitySelection"
      => LET m == inv[i].activity_mapping
             N == Len(ListedActivities(inv[i].selected_categories))
         IN  /\ DOMAIN m = 1..N
             /\ \A a, b \in DOMAIN m : a < b => CatalogBefore(m[a], m[b])

\* C4 as amended: the keys are exactly 1..N, N counting the activities of
\* every category number of the reply (a repeated number again), and the
\* numbers go to the pairs category by category in the order of the
\* reply, the activities of one category in catalog order.
C4_SelectionOrder ==
  \A i \in Inv :
    inv[i].pc = "AwaitingActivitySelection"
      => LET m == inv[i].activity_mapping
             listed == ListedActivities(inv[i].selected_categories)
         IN  /\ DOMAIN m = 1..Len(listed)
             /\ \A k \in DOMAIN m : m[k] = listed[k]

\* A check-in waits for the activity reply after the category reply
\* "3 1".
C4_Witness ==
  \E i \in Inv :
    /\ inv[i].pc = "AwaitingActivitySelection"
    /\ inv[i].selected_categories = <<"professional", "mental">>

\* The rows the activity reply of coroutine i selects.
SelectedRows(i) ==
  {Row(inv[i].user, today, inv[i].activity_mapping[n][1],
       inv[i].activity_mapping[n][2]) :
     n \in GivenNumbers(inv[i].reply.content)}

Completes(i) ==
  inv[i].pc = "AwaitingActivitySelection" /\ inv'[i].pc = "Completed"

\* C5: the step that completes a check-in adds to the store exactly the
\* (category, activity) pairs its display mapping gives to the numbers of
\* the activity reply, under the invoking user and today's date.
C5_RecordsAreSelection ==
  [][\A i \in Inv :
       Completes(i)
         => Range(checkins') = Range(checkins) \cup SelectedRows(i)]_vars

\* C7: when save_user_data returned False, no confirmation is sent.
C7_FailedSaveNotConfirmed ==
  dblog.returned = "False"
    => \A k \in 1..Len(outbox) : outbox[k].kind # "confirmation"

\* C8: a save that returns False leaves both tables as they were, and a
\* save that returns True leaves every selected pair in the store.
C8_AllOrNothing ==
  [][\A i \in Inv :
       Completes(i)
         => /\ dblog'.returned \in {"True", "False"}
            /\ dblog'.returned = "False"
                 => (checkins' = checkins /\ users' = users)
            /\ dblog'.returned = "True"
                 => /\ SelectedRows(i) \subseteq Range(checkins')
                    /\ inv[i].user \in users']_vars

\* A save of two selected pairs into the empty store failed after the
\* INSERT of the user and of the first pair, and the store is empty.
C8_Witness ==
  /\ dblog.save = "error"
  /\ dblog.executed = 2
  /\ dblog.returned = "False"
  /\ checkins = <<>>
  /\ users = {}
  /\ Len(outbox) = 1 /\ Len(outbox[1].body) = 2
  /\ outbox[1].body[1] # outbox[1].body[2]

\* The dates of user u in the store, newest first, as mycheckins prints
\* them, HistoryLimit at most.
RECURSIVE NewestFirst(_)
NewestFirst(days) ==
  IF days = {}
    THEN <<>>
    ELSE LET top == CHOOSE d \in days : \A e \in days : e <= d
         IN  <<strftime(top)>> \o NewestFirst(days \ {top})

MostRecentDates(u) ==
  FirstN(NewestFirst({checkins[k].checkin_date :
                        k \in {j \in 1..Len(checkins) :
                                 checkins[j].user_id = u}}),
         HistoryLimit)

\* C9: the answer of /mycheckins to user u, when the store could be read,
\* lists the HistoryLimit most recent dates of u, newest first (all of
\* them when there are fewer).
C9_ShowsMostRecentDates ==
  \A u \in Users :
    (Len(outbox) = 1 /\ outbox[1].inv = 0 /\ outbox[1].user = u
       /\ dblog.load = "ok")
      => [k \in 1..Len(outbox[1].body) |-> outbox[1].body[k].date]
           = MostRecentDates(u)

\* C10: load_user_data returns the empty mapping when the connection or
\* the query fails and when the table is empty, and the command that
\* called it goes on to its answer: /mycheckins to "not checked in yet",
\* /checkin to the save and the confirmation.
C10_LoadNeverRaises ==
  /\ dblog.load \in {"no_connection", "error"}
       => /\ dblog.loaded = 0
          /\ Len(outbox) = 1
          /\ \/ outbox[1].kind = "not_checked_in"
             \/ outbox[1].kind = "confirmation" /\ dblog.save # "none"
  /\ (dblog.load = "ok" /\ checkins = <<>>) => dblog.loaded = 0

\* A check-in on a store that holds records could not load them, saved
\* its selection all the same and was confirmed.
C10_Witness ==
  /\ dblog.load = "error"
  /\ dblog.returned = "True"
  /\ Len(checkins) >= 3
  /\ Len(outbox) = 1 /\ outbox[1].kind = "confirmation"

\* C6: a reply held by a check-in was written by its invoking user in
\* its channel.
C6_OwnRepliesOnly ==
  \A i \in Inv :
    (Waiting(i) /\ inv[i].reply # None)
      => /\ inv[i].reply.author = inv[i].user
         /\ inv[i].reply.channel = inv[i].channel

\* Two users have check-ins pending in the same channel; one has just
\* received its reply and the other is still waiting.
C6_Witness ==
  \E i, j \in Inv :
    /\ Waiting(i) /\ Waiting(j)
    /\ inv[i].user # inv[j].user
    /\ inv[i].channel = inv[j].channel
    /\ inv[i].reply # None
    /\ j \in Range(listeners)

\* C11: when a check-in completes and its save returned True, every pair
\* selected by the activity reply, a number given twice included, is in
\* exactly one row of the store and on exactly one line of the
\* confirmation.
C11_DuplicatesOnce ==
  [][\A i \in Inv :
       (Completes(i) /\ dblog'.returned = "True")
         => \A row \in SelectedRows(i) :
              /\ Cardinality({k \in 1..Len(checkins') :
                                checkins'[k] = row}) = 1
              /\ Len(outbox') = 1
              /\ Cardinality(
                   {k \in 1..Len(outbox'[1].body) :
                      outbox'[1].body[k]
                        = <<row.activity,
                            checklist_categories[row.category].name>>})
                   = 1]_vars

\* The rows of user u on day `day`.
RecordsOf(u, day) ==
  {k \in 1..Len(checkins) :
     checkins[k].user_id = u /\ checkins[k].checkin_date = day}

\* A step of the bot that removes every row of (u, day) and no other row
\* and tells u how many it removed.
DeleteByDate(u, day) ==
  /\ Next
  /\ checkins' = SelectSeq(checkins,
                           LAMBDA r : ~(r.user_id = u
                                          /\ r.checkin_date = day))
  /\ Len(outbox') = 1
  /\ outbox'[1].user = u
  /\ outbox'[1].num = Cardinality(RecordsOf(u, day))

\* C12: a user who has records on a date can have the bot delete them:
\* some command of the bot removes every record of exactly that (user,
\* date), no other record, and reports the number removed.
C12_DeleteByDate ==
  \A u \in Users, day \in Days :
    RecordsOf(u, day) # {} => ENABLED DeleteByDate(u, day)

\* C13: a check-in that waits for a reply eventually returns, completed or
\* aborted, whatever is or is not written to it.
C13_EventuallyReturns ==
  /\ [](\A k \in 1..Len(ready) :
          Waiting(ready[k]) /\ inv[ready[k]].reply # None)
  /\ \A i \in Inv : Waiting(i) ~> NotRunning(i)

\* A check-in that was never written to has returned on its timeout.
C13_Witness ==
  \E i \in Inv, u \in Users :
    /\ inv[i].pc = "Aborted"
    /\ started = MaxStarts
    /\ outbox = <<Msg(i, u, "timeout", 0, <<>>)>>
    /\ \A j \in Inv : NotRunning(j)

ErrorKinds ==
  {"category_out_of_range", "category_invalid_input", "category_no_valid",
   "activity_not_valid", "activity_invalid_input", "activity_no_valid",
   "timeout"}

\* The kind of the one message a step of a check-in sends, by where the
\* step takes the check-in.
KindsTo(pc) ==
  CASE pc = "AwaitingCategorySelection" -> {"category_prompt"}
    [] pc = "AwaitingActivitySelection" -> {"activity_prompt"}
    [] pc = "Aborted" -> ErrorKinds
    [] pc = "Completed" -> {"confirmation"}
    [] OTHER -> {}

\* C14: the step that starts a check-in, and every step that handles a
\* reply or a timeout, sends exactly one message: the category prompt, the
\* activity prompt, one error or the confirmation, by where the step takes
\* the check-in; and a message of a check-in is sent only by a step of
\* that check-in, so none follows its return.
C14_OneMessagePerStep ==
  [][\A i \in Inv :
       /\ (inv'[i].pc # inv[i].pc)
            => /\ Len(outbox') = 1
               /\ outbox'[1].inv = i
               /\ outbox'[1].kind \in KindsTo(inv'[i].pc)
       /\ (\E k \in 1..Len(outbox') : outbox'[k].inv = i)
            => inv'[i].pc # inv[i].pc]_vars

\* A check-in has aborted on a category reply with no number in it.
C14_Witness ==
  \E i \in Inv, u \in Users :
    /\ inv[i].pc = "Aborted"
    /\ outbox = <<Msg(i, u, "category_no_valid", 0, <<>>)>>

\* C15: no step removes or changes a row of table checkins: the rows of
\* before are the first rows of after; and only the step that completes a
\* check-in adds rows.
C15_RecordsStay ==
  [][/\ Len(checkins') >= Len(checkins)
     /\ SubSeq(checkins', 1, Len(checkins)) = checkins
     /\ (checkins' # checkins) => \E i \in Inv : Completes(i)]_vars

\* A check-in of day 1 has added its record after the records of day 0.
C15_Witness ==
  \E i \in Inv :
    /\ inv[i].pc = "Completed"
    /\ today = 1
    /\ Len(checkins) >= 2
    /\ checkins[1].checkin_date = 0
    /\ checkins[Len(checkins)].checkin_date = 1

\* C16: the step that completes a check-in of user u on day d leaves
\* every row of before in its place and adds only rows of user u and
\* day d.
C16_OnlyOwnRecords ==
  [][\A i \in Inv :
       Completes(i)
         => /\ Len(checkins') >= Len(checkins)
            /\ \A k \in 1..Len(checkins') :
                 IF k <= Len(checkins)
                   THEN checkins'[k] = checkins[k]
                   ELSE /\ checkins'[k].user_id = inv[i].user
                        /\ checkins'[k].checkin_date = today]_vars

\* User 2 has completed a check-in whose save handed back the loaded
\* records of user 1 as well.
C16_Witness ==
  \E i \in Inv :
    /\ inv[i].pc = "Completed"
    /\ dblog.load = "ok" /\ dblog.loaded >= 1
    /\ dblog.returned = "True"
    /\ checkins # <<>>
    /\ checkins[1].user_id = 1
    /\ checkins[Len(checkins)].user_id = 2

\* The check-ins that a step hands a reply to.
Woken == {i \in Inv : inv[i].reply = None /\ inv'[i].reply # None}

\* C17: a message is handed to at most one pending check-in.
C17_OneConsumer ==
  [][Cardinality(Woken) <= 1]_vars

\* C18: every row of table checkins has a category of the catalog and an
\* activity the catalog lists under that category.
C18_CatalogValid ==
  \A k \in 1..Len(checkins) :
    /\ checkins[k].category \in Range(CategoryKeys)
    /\ checkins[k].activity
         \in Range(checklist_categories[checkins[k].category].activities)

\* A check-in that chose categories "2 1" and activities "1 5" has stored
\* an activity of each.
C18_Witness ==
  \E i \in Inv, a, b \in 1..Len(checkins) :
    /\ inv[i].pc = "Completed"
    /\ dblog.returned = "True"
    /\ checkins[a].category = "physical"
    /\ checkins[b].category = "mental"
    /\ checkins[a].checkin_date = today
    /\ checkins[b].checkin_date = today
    /\ outbox # <<>> /\ Len(outbox[1].body) = 2
    /\ outbox[1].body[1][2] = checklist_categories["physical"].name
    /\ outbox[1].body[2][2] = checklist_categories["mental"].name

\* The activities stored for user u on day `day` under category c.
StoredActivities(u, day, c) ==
  {checkins[k].activity : k \in {j \in RecordsOf(u, day) :
                                    checkins[j].category = c}}

\* C19: when the store could be read and holds records of user u for
\* today, the answer of /mycheckins to u is the history, its first date
\* is today, and under it are the activities stored for u today.
C19_RoundTrip ==
  \A u \in Users :
    (/\ Len(outbox) = 1 /\ outbox[1].inv = 0 /\ outbox[1].user = u
     /\ outbox[1].kind \in {"history", "not_checked_in"}
     /\ dblog.load = "ok"
     /\ RecordsOf(u, today) # {})
      => /\ outbox[1].kind = "history"
         /\ outbox[1].body # <<>>
         /\ outbox[1].body[1].date = strftime(today)
         /\ \A e \in Range(outbox[1].body[1].categories) :
              \E c \in Range(CategoryKeys) :
                /\ e[1] = checklist_categories[c].name
                /\ Range(e[2]) = StoredActivities(u, today, c)
====
